---- MODULE Spec2Model ----
(***************************************************************************)
(* SilentSOS (src/HelpMe.py): the gesture classifier, the alert decision   *)
(* of the frame loop in main(), and the delivery protocol of send_alert(). *)
(***************************************************************************)
EXTENDS Integers, Sequences, FiniteSets, TLC

VARIABLES
    pc,               \* position of the single thread in main() / send_alert()
    now,              \* last value read from time.time(), which is positive
    SMS_COOLDOWN,     \* configured cooldown (env SMS_COOLDOWN), fixed for a run
    client,           \* TRUE iff the Twilio client was built (credentials set)
    last_sms_time,    \* main(): last_sms_time
    active_gesture,   \* main(): active_gesture
    total_alerts,     \* main(): total_alerts
    gesture_detected, \* main(): gesture_detected of the current frame
    screenshots,      \* number of cv2.imwrite calls
    success,          \* send_alert(): success
    method_used,      \* send_alert(): method_used
    attempts,         \* channels on which messages.create was called in this call
    sms_result,       \* what the SMS attempt of this call returned or raised
    wa_result,        \* what the WhatsApp attempt of this call returned or raised
    cue_result,       \* what play_alert_sound() did in this call
    log,              \* lines appended to LOG_FILE
    dispatch_calls,   \* number of send_alert invocations started
    raised,           \* the place an exception escaped from, "none" if none did
    cap_released,     \* cap.release() was called
    windows_closed,   \* cv2.destroyAllWindows() was called
    fire_log,         \* history: the Fire decisions taken, as [gesture, time]
    held,             \* history: the fired gesture was seen on every frame since
    other_since,      \* history: another gesture was seen on every frame since
    seen_since,       \* history: some gesture was seen on every frame since
    frame_fired,      \* history: the last evaluated frame fired
    hands,            \* classifier run: the finger states of the detected hands
    hand_idx,         \* classifier run: index of the hand the loop is at
    labels            \* classifier run: classify_gesture's result per hand so far

vars == <<pc, now, SMS_COOLDOWN, client, last_sms_time, active_gesture,
          total_alerts, gesture_detected, screenshots, success, method_used,
          attempts, sms_result, wa_result, cue_result, log, dispatch_calls,
          raised, cap_released, windows_closed, fire_log, held, other_since,
          seen_since, frame_fired, hands, hand_idx, labels>>

mainVars == <<now, SMS_COOLDOWN, client, last_sms_time, active_gesture,
              total_alerts, screenshots, success, method_used, attempts,
              sms_result, wa_result, cue_result, log, dispatch_calls, raised,
              cap_released, windows_closed, fire_log, held, other_since,
              seen_since, frame_fired>>

sendVars == <<success, method_used, attempts, sms_result, wa_result,
              cue_result, log, dispatch_calls>>

exitVars == <<raised, cap_released, windows_closed>>

cfgVars == <<SMS_COOLDOWN, client>>

loopVars == <<now, last_sms_time, active_gesture, total_alerts,
              gesture_detected, screenshots, fire_log, held, other_since,
              seen_since, frame_fired>>

classVars == <<hands, hand_idx, labels>>

----------------------------------------------------------------------------
(* Bounds of the model *)

MaxTime == 4

MaxCooldown == 1

MaxAlerts == 2

(* Program constants *)

MAX_HANDS == 2

BLOCKED_CODE == 30004

----------------------------------------------------------------------------
(* Gesture classification *)

None == "None"

FingerStates == [1..5 -> {0, 1}]

Gestures == {"Kidnap Alert", "Medical Emergency", "Distress / SOS",
             "Testing / V-Sign", "Call Police"}

classify_gesture_thumb_folded_vsign(fingers) ==
    LET thumb == fingers[1]
        index == fingers[2]
        middle == fingers[3]
        ring == fingers[4]
        pinky == fingers[5]
    IN  IF thumb = 1 /\ index = 1 /\ middle = 0 /\ ring = 0 /\ pinky = 0
          THEN "Kidnap Alert"
        ELSE IF index = 1 /\ middle = 1 /\ ring = 1 /\ thumb = 0 /\ pinky = 0
          THEN "Medical Emergency"
        ELSE IF thumb = 0 /\ index = 0 /\ middle = 0 /\ ring = 0 /\ pinky = 0
          THEN "Distress / SOS"
        ELSE IF thumb = 0 /\ index = 1 /\ middle = 1 /\ ring = 0 /\ pinky = 0
          THEN "Testing / V-Sign"
        ELSE IF thumb = 1 /\ pinky = 1 /\ index = 0 /\ middle = 0 /\ ring = 0
          THEN "Call Police"
        ELSE None

classify_gesture(fingers) ==
    LET thumb == fingers[1]
        index == fingers[2]
        middle == fingers[3]
        ring == fingers[4]
        pinky == fingers[5]
    IN  IF thumb = 1 /\ index = 1 /\ middle = 0 /\ ring = 0 /\ pinky = 0
          THEN "Kidnap Alert"
        ELSE IF index = 1 /\ middle = 1 /\ ring = 1 /\ thumb = 0 /\ pinky = 0
          THEN "Medical Emergency"
        ELSE IF thumb = 0 /\ index = 0 /\ middle = 0 /\ ring = 0 /\ pinky = 0
          THEN "Distress / SOS"
        ELSE IF index = 1 /\ middle = 1 /\ ring = 0 /\ pinky = 0
          THEN "Testing / V-Sign"
        ELSE IF thumb = 1 /\ pinky = 1 /\ index = 0 /\ middle = 0 /\ ring = 0
          THEN "Call Police"
        ELSE None

(* The conditions of the if/elif chain of classify_gesture, in its order,
   and the gesture each returns. *)
RuleCond_kidnap_ignores_middle(r, fingers) ==
    LET thumb == fingers[1]
        index == fingers[2]
        middle == fingers[3]
        ring == fingers[4]
        pinky == fingers[5]
    IN  CASE r = 1 -> thumb = 1 /\ index = 1 /\ ring = 0 /\ pinky = 0
          [] r = 2 -> index = 1 /\ middle = 1 /\ ring = 1 /\ thumb = 0 /\ pinky = 0
          [] r = 3 -> thumb = 0 /\ index = 0 /\ middle = 0 /\ ring = 0 /\ pinky = 0
          [] r = 4 -> index = 1 /\ middle = 1 /\ ring = 0 /\ pinky = 0
          [] r = 5 -> thumb = 1 /\ pinky = 1 /\ index = 0 /\ middle = 0 /\ ring = 0

RuleCond(r, fingers) ==
    LET thumb == fingers[1]
        index == fingers[2]
        middle == fingers[3]
        ring == fingers[4]
        pinky == fingers[5]
    IN  CASE r = 1 -> thumb = 1 /\ index = 1 /\ middle = 0 /\ ring = 0 /\ pinky = 0
          [] r = 2 -> index = 1 /\ middle = 1 /\ ring = 1 /\ thumb = 0 /\ pinky = 0
          [] r = 3 -> thumb = 0 /\ index = 0 /\ middle = 0 /\ ring = 0 /\ pinky = 0
          [] r = 4 -> index = 1 /\ middle = 1 /\ ring = 0 /\ pinky = 0
          [] r = 5 -> thumb = 1 /\ pinky = 1 /\ index = 0 /\ middle = 0 /\ ring = 0

RuleGesture(r) ==
    CASE r = 1 -> "Kidnap Alert"
      [] r = 2 -> "Medical Emergency"
      [] r = 3 -> "Distress / SOS"
      [] r = 4 -> "Testing / V-Sign"
      [] r = 5 -> "Call Police"

(* The hand loop of main(): the first hand, in detection order, whose
   classification is not None decides; None if there is none. *)
RECURSIVE DetectFrom(_, _)
DetectFrom(hs, i) ==
    IF i > Len(hs) THEN None
    ELSE IF classify_gesture(hs[i]) # None THEN classify_gesture(hs[i])
    ELSE DetectFrom(hs, i + 1)

DetectGesture(hs) == DetectFrom(hs, 1)

HandLists(S) == UNION {[1..n -> S] : n \in 0..MAX_HANDS}

----------------------------------------------------------------------------
(* The alert decision of the frame loop *)

(* Finger states fed to the frame loop: one per gesture used, and an open
   palm, which classifies to None. *)
SampleFingers == {<<1, 1, 0, 0, 0>>, <<0, 0, 0, 0, 0>>, <<1, 0, 0, 0, 1>>,
                  <<1, 1, 1, 1, 1>>}

ShouldFire_no_cooldown(detected, active, t, last, cooldown) ==
    detected # None /\ detected # active

ShouldFire_no_hold(detected, active, t, last, cooldown) ==
    detected # None /\ (t - last) > cooldown

ShouldFire_at_cooldown(detected, active, t, last, cooldown) ==
    detected # None /\ detected # active /\ (t - last) >= cooldown

ShouldFire(detected, active, t, last, cooldown) ==
    detected # None /\ detected # active /\ (t - last) > cooldown

ClearIfAbsent_arms_suppressed(detected, active) ==
    IF detected = None THEN None ELSE detected

ClearIfAbsent_never_clears(detected, active) ==
    active

ClearIfAbsent_tracks_detected(detected, active) ==
    detected

ClearIfAbsent(detected, active) ==
    IF detected = None THEN None ELSE active

LastFired == IF fire_log = <<>> THEN None ELSE fire_log[Len(fire_log)].gesture

LastFireTime == IF fire_log = <<>> THEN 0 ELSE fire_log[Len(fire_log)].time

(* One iteration up to the alert decision: cap.read, the hand loop,
   time.time(), the fire test and, on a fire, the state update and the
   snapshot.  The stream is cut after MaxAlerts alerts. *)
Frame ==
    /\ pc = "loop"
    /\ total_alerts < MaxAlerts
    /\ \E hs \in HandLists(SampleFingers), t \in now..MaxTime :
         LET g == DetectGesture(hs)
             fire == ShouldFire(g, active_gesture, t, last_sms_time, SMS_COOLDOWN)
         IN  /\ gesture_detected' = g
             /\ now' = t
             /\ frame_fired' = fire
             /\ IF fire
                  THEN /\ active_gesture' = g
                       /\ last_sms_time' = t
                       /\ screenshots' = screenshots + 1
                       /\ total_alerts' = total_alerts + 1
                       /\ fire_log' = Append(fire_log, [gesture |-> g, time |-> t])
                       /\ held' = TRUE
                       /\ other_since' = TRUE
                       /\ seen_since' = TRUE
                       /\ pc' = "send_alert"
                  ELSE /\ UNCHANGED <<active_gesture, last_sms_time, screenshots,
                                      total_alerts, fire_log>>
                       /\ held' = (held /\ g = LastFired)
                       /\ other_since' = (other_since /\ g # None /\ g # LastFired)
                       /\ seen_since' = (seen_since /\ g # None)
                       /\ pc' = "tail"
    /\ UNCHANGED <<cfgVars, sendVars, exitVars, classVars>>

(* The rest of the iteration: release of the armed gesture, the quit key. *)
LoopTail ==
    /\ pc = "tail"
    /\ active_gesture' = ClearIfAbsent(gesture_detected, active_gesture)
    /\ \E key \in {"q", "other"} :
         pc' = IF key = "q" THEN "release" ELSE "loop"
    /\ UNCHANGED <<now, last_sms_time, total_alerts, gesture_detected,
                   screenshots, fire_log, held, other_since, seen_since,
                   frame_fired>>
    /\ UNCHANGED <<cfgVars, sendVars, exitVars, classVars>>

(* cap.read() returns no frame, or the capture is no longer open. *)
EndOfStream ==
    /\ pc = "loop"
    /\ pc' = "release"
    /\ UNCHANGED <<loopVars, cfgVars, sendVars, exitVars, classVars>>

Release ==
    /\ pc = "release"
    /\ cap_released' = TRUE
    /\ windows_closed' = TRUE
    /\ pc' = "exited"
    /\ UNCHANGED <<raised, loopVars, cfgVars, sendVars, classVars>>

----------------------------------------------------------------------------
(* send_alert *)

NoResult == [kind |-> "none", code |-> 0, status |-> ""]

Ok == [kind |-> "ok", code |-> 0, status |-> ""]

Statuses == {"accepted", "queued", "sending", "sent", "delivered",
             "undelivered", "failed"}

ErrorCodes == {BLOCKED_CODE, 21608, 20003}

(* What a Twilio call can raise: a TwilioRestException with a code, or an
   exception of another class (a connection error of the HTTP layer). *)
Raises == {[kind |-> "TwilioRestException", code |-> c, status |-> ""] : c \in ErrorCodes}
          \cup {[kind |-> "Exception", code |-> 0, status |-> ""]}

CreateOutcomes == {Ok} \cup Raises

FetchOutcomes == {[kind |-> "status", code |-> 0, status |-> s] : s \in Statuses}
                 \cup Raises

StatusOk(status) == status \in {"sent", "delivered", "queued"}

(* except TwilioRestException as e: where the call goes on, and the channel *)
OnRestException_no_fallback(code) ==
    [method |-> "SMS", pc |-> "cue"]

OnRestException_retries_sms(code) ==
    IF code = BLOCKED_CODE
      THEN [method |-> "WhatsApp", pc |-> "wa_create"]
      ELSE [method |-> "SMS", pc |-> "sms_create"]

OnRestException_any_code(code) ==
    [method |-> "WhatsApp", pc |-> "wa_create"]

OnRestException(code) ==
    IF code = BLOCKED_CODE
      THEN [method |-> "WhatsApp", pc |-> "wa_create"]
      ELSE [method |-> "SMS", pc |-> "cue"]

(* The outcome r of a call inside the try block of the SMS attempt. *)
SmsRaised(r) ==
    /\ r.kind \in {"TwilioRestException", "Exception"}
    /\ sms_result' = r
    /\ IF r.kind = "TwilioRestException"
         THEN /\ method_used' = OnRestException(r.code).method
              /\ pc' = OnRestException(r.code).pc
              /\ raised' = raised
         ELSE /\ method_used' = method_used
              /\ pc' = "crashed"
              /\ raised' = "sms"
    /\ UNCHANGED success

SendAlertEnter ==
    /\ pc = "send_alert"
    /\ dispatch_calls' = dispatch_calls + 1
    /\ success' = FALSE
    /\ method_used' = "SMS"
    /\ attempts' = <<>>
    /\ sms_result' = NoResult
    /\ wa_result' = NoResult
    /\ cue_result' = "none"
    /\ pc' = IF client THEN "sms_create" ELSE "cue"
    /\ UNCHANGED <<log, loopVars, cfgVars, exitVars, classVars>>

SmsCreate ==
    /\ pc = "sms_create"
    /\ attempts' = Append(attempts, "SMS")
    /\ \E r \in CreateOutcomes :
         \/ /\ r.kind = "ok"
            /\ sms_result' = r
            /\ pc' = "sms_fetch"
            /\ UNCHANGED <<success, method_used, raised>>
         \/ SmsRaised(r)
    /\ UNCHANGED <<wa_result, cue_result, log, dispatch_calls, cap_released,
                   windows_closed, loopVars, cfgVars, classVars>>

SmsFetch ==
    /\ pc = "sms_fetch"
    /\ \E r \in FetchOutcomes :
         \/ /\ r.kind = "status"
            /\ sms_result' = r
            /\ success' = StatusOk(r.status)
            /\ pc' = "cue"
            /\ UNCHANGED <<method_used, raised>>
         \/ SmsRaised(r)
    /\ UNCHANGED <<attempts, wa_result, cue_result, log, dispatch_calls,
                   cap_released, windows_closed, loopVars, cfgVars, classVars>>

WaCreate ==
    /\ pc = "wa_create"
    /\ attempts' = Append(attempts, "WhatsApp")
    /\ \E r \in CreateOutcomes :
         /\ wa_result' = r
         /\ success' = IF r.kind = "ok" THEN TRUE ELSE success
    /\ pc' = "cue"
    /\ UNCHANGED <<method_used, sms_result, cue_result, log, dispatch_calls,
                   loopVars, cfgVars, exitVars, classVars>>

(* play_alert_sound() is not guarded: what it raises leaves send_alert. *)
PlayCue ==
    /\ pc = "cue"
    /\ \E r \in {"played", "raises"} :
         /\ cue_result' = r
         /\ pc' = IF r = "played" THEN "log" ELSE "crashed"
         /\ raised' = IF r = "played" THEN raised ELSE "cue"
    /\ UNCHANGED <<success, method_used, attempts, sms_result, wa_result, log,
                   dispatch_calls, cap_released, windows_closed, loopVars,
                   cfgVars, classVars>>

WriteLog ==
    /\ pc = "log"
    /\ log' = Append(log, [gesture |-> gesture_detected,
                           method |-> method_used,
                           success |-> success])
    /\ pc' = "tail"
    /\ UNCHANGED <<success, method_used, attempts, sms_result, wa_result,
                   cue_result, dispatch_calls, loopVars, cfgVars, exitVars,
                   classVars>>

----------------------------------------------------------------------------
(* The program *)

Init ==
    /\ pc = "loop"
    /\ now = 1
    /\ SMS_COOLDOWN \in 0..MaxCooldown
    /\ client \in BOOLEAN
    /\ last_sms_time = 0
    /\ active_gesture = None
    /\ total_alerts = 0
    /\ gesture_detected = None
    /\ screenshots = 0
    /\ success = FALSE
    /\ method_used = "SMS"
    /\ attempts = <<>>
    /\ sms_result = NoResult
    /\ wa_result = NoResult
    /\ cue_result = "none"
    /\ log = <<>>
    /\ dispatch_calls = 0
    /\ raised = "none"
    /\ cap_released = FALSE
    /\ windows_closed = FALSE
    /\ fire_log = <<>>
    /\ held = FALSE
    /\ other_since = FALSE
    /\ seen_since = FALSE
    /\ frame_fired = FALSE
    /\ hands = <<>>
    /\ hand_idx = 1
    /\ labels = <<>>

Next ==
    \/ Frame
    \/ LoopTail
    \/ EndOfStream
    \/ Release
    \/ SendAlertEnter
    \/ SmsCreate
    \/ SmsFetch
    \/ WaCreate
    \/ PlayCue
    \/ WriteLog

Spec == Init /\ [][Next]_vars

----------------------------------------------------------------------------
(* The hand loop alone, over every list of at most MAX_HANDS finger states *)

ClassifyInit ==
    /\ pc = "hands"
    /\ hands \in HandLists(FingerStates)
    /\ hand_idx = 1
    /\ labels = <<>>
    /\ gesture_detected = None
    /\ now = 1
    /\ SMS_COOLDOWN = 0
    /\ client = FALSE
    /\ last_sms_time = 0
    /\ active_gesture = None
    /\ total_alerts = 0
    /\ screenshots = 0
    /\ success = FALSE
    /\ method_used = "SMS"
    /\ attempts = <<>>
    /\ sms_result = NoResult
    /\ wa_result = NoResult
    /\ cue_result = "none"
    /\ log = <<>>
    /\ dispatch_calls = 0
    /\ raised = "none"
    /\ cap_released = FALSE
    /\ windows_closed = FALSE
    /\ fire_log = <<>>
    /\ held = FALSE
    /\ other_since = FALSE
    /\ seen_since = FALSE
    /\ frame_fired = FALSE

ClassifyHand_no_break ==
    /\ pc = "hands"
    /\ hand_idx <= Len(hands)
    /\ LET g == classify_gesture(hands[hand_idx])
       IN  /\ labels' = Append(labels, g)
           /\ gesture_detected' = IF g # None THEN g ELSE gesture_detected
           /\ hand_idx' = hand_idx + 1
           /\ UNCHANGED pc
    /\ UNCHANGED <<hands, mainVars>>

ClassifyHand ==
    /\ pc = "hands"
    /\ hand_idx <= Len(hands)
    /\ LET g == classify_gesture(hands[hand_idx])
       IN  /\ labels' = Append(labels, g)
           /\ IF g # None
                THEN /\ gesture_detected' = g
                     /\ pc' = "decide"
                     /\ UNCHANGED hand_idx
                ELSE /\ hand_idx' = hand_idx + 1
                     /\ UNCHANGED <<gesture_detected, pc>>
    /\ UNCHANGED <<hands, mainVars>>

HandsDone ==
    /\ pc = "hands"
    /\ hand_idx > Len(hands)
    /\ pc' = "decide"
    /\ UNCHANGED <<gesture_detected, classVars, mainVars>>

ClassifyNext == ClassifyHand \/ HandsDone

ClassifySpec == ClassifyInit /\ [][ClassifyNext]_vars

----------------------------------------------------------------------------
(* Properties *)

(* A step that evaluates one frame, and whether it took a Fire decision *)
FrameStep == pc = "loop" /\ pc' \in {"tail", "send_alert"}

Fired == Len(fire_log') = Len(fire_log) + 1

InCall == {"sms_create", "sms_fetch", "wa_create", "cue", "log"}

Returned == pc = "tail" /\ frame_fired

Failures == {"TwilioRestException", "Exception"}

Blocked == sms_result.kind = "TwilioRestException" /\ sms_result.code = BLOCKED_CODE

Sends(channel) == Cardinality({i \in 1..Len(attempts) : attempts[i] = channel})

(* C1: any two Fire decisions have timestamps that are not less than the
   cooldown apart. *)
C1_OneFirePerWindow ==
    \A i, j \in 1..Len(fire_log) :
        i < j => fire_log[j].time - fire_log[i].time >= SMS_COOLDOWN

C1_Witness ==
    /\ Len(fire_log) = 2
    /\ SMS_COOLDOWN > 0
    /\ fire_log[2].time - fire_log[1].time = SMS_COOLDOWN + 1

(* C2: while the fired gesture has been detected on every frame since the
   Fire, a frame that detects it again does not fire, however late; and a
   Fire that follows an earlier Fire comes only once the cooldown has
   elapsed, on a frame that broke the hold (the gesture was absent in
   between, or the frame's gesture is a different one). *)
C2_Debounce ==
    [][(FrameStep /\ fire_log # <<>>) =>
          /\ (held /\ gesture_detected' = LastFired) => ~Fired
          /\ Fired => /\ now' - LastFireTime > SMS_COOLDOWN
                      /\ (~held \/ gesture_detected' # LastFired)]_vars

C2_Witness ==
    /\ pc = "tail"
    /\ held
    /\ ~frame_fired
    /\ gesture_detected = LastFired
    /\ now - LastFireTime > SMS_COOLDOWN

(* C3: after a Fire at t0, while a gesture other than the fired one has been
   detected on every frame since, a frame that again detects such a gesture
   fires, for that gesture, exactly if now - t0 > cooldown. *)
C3_Cooldown ==
    [][(/\ FrameStep
        /\ fire_log # <<>>
        /\ other_since
        /\ gesture_detected' \notin {None, LastFired}) =>
          /\ Fired <=> now' - LastFireTime > SMS_COOLDOWN
          /\ Fired => fire_log'[Len(fire_log')] =
                        [gesture |-> gesture_detected', time |-> now']]_vars

C3_Witness ==
    /\ pc = "tail"
    /\ fire_log # <<>>
    /\ other_since
    /\ ~frame_fired
    /\ gesture_detected \notin {None, LastFired}
    /\ SMS_COOLDOWN > 0
    /\ now - LastFireTime = SMS_COOLDOWN

(* C4: every send_alert call appends exactly one record: outside a call the
   log holds one record per call started. *)
C4_OneRecordPerCall ==
    pc \notin InCall => Len(log) = dispatch_calls

(* C5: when the SMS attempt is rejected with code 30004, exactly one WhatsApp
   attempt is made, and the record names WhatsApp with success true exactly
   if that attempt succeeded. *)
C5_Fallback ==
    (Blocked /\ pc \notin {"sms_create", "sms_fetch", "wa_create"}) =>
        /\ Sends("WhatsApp") = 1
        /\ method_used = "WhatsApp"
        /\ success = (wa_result.kind = "ok")
        /\ Returned =>
             /\ log[Len(log)].method = "WhatsApp"
             /\ log[Len(log)].success = (wa_result.kind = "ok")

C5_Witness ==
    /\ Returned
    /\ Blocked
    /\ wa_result.kind = "TwilioRestException"
    /\ log[Len(log)] = [gesture |-> gesture_detected, method |-> "WhatsApp",
                        success |-> FALSE]

(* C6: within one call at most one send is attempted on SMS, at most one on
   WhatsApp, and none on any other channel. *)
C6_NoRetryNoThirdChannel ==
    /\ Sends("SMS") <= 1
    /\ Sends("WhatsApp") <= 1
    /\ \A i \in 1..Len(attempts) : attempts[i] \in {"SMS", "WhatsApp"}

C6_Witness ==
    /\ Returned
    /\ attempts = <<"SMS", "WhatsApp">>

(* C7: without credentials a call that returns has made no network attempt,
   has played the cue, and has appended a record with channel "none" and
   success false. *)
C7_Unconfigured ==
    (~client /\ Returned) =>
        /\ attempts = <<>>
        /\ cue_result = "played"
        /\ Len(log) = dispatch_calls
        /\ log[Len(log)].method = "none"
        /\ log[Len(log)].success = FALSE

(* C8: a delivery attempt that fails, on either channel and with whatever
   exception, never ends the program: unless the cue fails, the call goes on
   to its record. *)
C8_DeliveryFailuresCaught ==
    (/\ sms_result.kind \in Failures \/ wa_result.kind \in Failures
     /\ cue_result # "raises") => pc # "crashed"

(* C9: a failure of the alert cue does not abort the dispatch: the program
   goes on and the record of the call is appended. *)
C9_CueFailureIgnored ==
    cue_result = "raises" =>
        /\ pc # "crashed"
        /\ pc \notin InCall => Len(log) = dispatch_calls

(* The priority rules 1 to 6 of the specification, as a table of patterns *)
RuleTable(f) ==
    IF f = <<1, 1, 0, 0, 0>> THEN "Kidnap Alert"
    ELSE IF f = <<0, 1, 1, 1, 0>> THEN "Medical Emergency"
    ELSE IF f = <<0, 0, 0, 0, 0>> THEN "Distress / SOS"
    ELSE IF f \in {<<0, 1, 1, 0, 0>>, <<1, 1, 1, 0, 0>>} THEN "Testing / V-Sign"
    ELSE IF f = <<1, 0, 0, 0, 1>> THEN "Call Police"
    ELSE None

(* C10: classify_gesture returns, for each of the 32 finger states, what the
   priority rules 1 to 6 of the specification return: the documented patterns
   give their gesture, every other state gives None. *)
C10_ClassifierMatchesRules ==
    \A i \in 1..Len(labels) : labels[i] = RuleTable(hands[i])

C10_Witness ==
    /\ Len(hands) = 2
    /\ Len(labels) = 2
    /\ hands[1] = <<0, 1, 0, 0, 0>>
    /\ hands[2] = <<1, 1, 1, 0, 0>>
    /\ labels = <<None, "Testing / V-Sign">>

(* Statuses that say the message was accepted, queued or delivered *)
AcceptedStatuses == {"accepted", "queued", "delivered"}

(* C11: when the SMS attempt is acknowledged with a status that means
   accepted, queued or delivered, the call ends with success true on SMS,
   without a WhatsApp attempt, and its record says so. *)
C11_AcknowledgedIsSuccess ==
    (/\ sms_result.kind = "status"
     /\ sms_result.status \in AcceptedStatuses
     /\ pc \notin {"sms_create", "sms_fetch"}) =>
        /\ success = TRUE
        /\ method_used = "SMS"
        /\ Sends("WhatsApp") = 0
        /\ Returned => log[Len(log)] = [gesture |-> gesture_detected,
                                        method |-> "SMS", success |-> TRUE]

(* C12: however the frame loop is left (end of stream, quit key, or an
   exception that nothing handles), the capture has been released and the
   windows closed once the program has ended. *)
C12_ReleasedOnEveryExit ==
    pc \in {"exited", "crashed"} => cap_released /\ windows_closed

(* C13, as claimed: outside the tail of an iteration, active_gesture is set
   only if it is the last fired gesture and that gesture itself was detected
   on every frame since it fired. *)
C13_ActiveIsHeldFired ==
    (pc # "tail" /\ active_gesture # None) =>
        active_gesture = LastFired /\ held

(* C13, amended: outside the tail of an iteration, active_gesture is set only
   if it is the last fired gesture and some gesture, the fired one or
   another, was detected on every frame since it fired. *)
C13_ActiveIsFiredWhileSeen ==
    (pc # "tail" /\ active_gesture # None) =>
        active_gesture = LastFired /\ seen_since

C13_Witness ==
    /\ pc = "loop"
    /\ active_gesture # None
    /\ active_gesture = LastFired
    /\ gesture_detected \notin {None, LastFired}
    /\ seen_since
    /\ ~held

(* C14: with no earlier alert, a frame that carries a gesture fires,
   whatever the time and the cooldown: no evaluated frame with a gesture
   leaves the session without a Fire. *)
C14_FirstGestureFires ==
    ~(pc = "tail" /\ gesture_detected # None /\ fire_log = <<>>)

(* C15: a WhatsApp attempt is made only in a call whose SMS attempt was made
   first and was rejected with code 30004. *)
C15_SecondaryOnlyAfterBlocked ==
    (pc = "wa_create" \/ Sends("WhatsApp") > 0) =>
        /\ Blocked
        /\ attempts # <<>>
        /\ attempts[1] = "SMS"

C15_Witness ==
    /\ pc = "wa_create"
    /\ attempts = <<"SMS">>
    /\ Blocked

(* C16: when the SMS attempt fails for a reason other than code 30004 (an
   exception of any kind, or a status that is not an accepted one), the call
   ends with success false on SMS, with no further attempt, and its record
   says so. *)
PrimaryFailedOther ==
    \/ sms_result.kind \in Failures /\ ~Blocked
    \/ /\ sms_result.kind = "status"
       /\ sms_result.status \in {"sending", "undelivered", "failed"}

C16_OtherFailureIsFailed ==
    (/\ PrimaryFailedOther
     /\ pc \notin {"sms_create", "sms_fetch"}
     /\ cue_result # "raises") =>
        /\ pc # "crashed"
        /\ success = FALSE
        /\ method_used = "SMS"
        /\ Sends("WhatsApp") = 0
        /\ Returned => log[Len(log)] = [gesture |-> gesture_detected,
                                        method |-> "SMS", success |-> FALSE]

(* C17: the gesture passed on is the classification of the first hand, in
   detection order, that classifies to a gesture; the hands after it are not
   classified; it is None only if every hand classifies to None. *)
C17_FirstHandWithGesture ==
    pc = "decide" =>
        LET found == {i \in 1..Len(hands) : classify_gesture(hands[i]) # None}
        IN  /\ gesture_detected = DetectGesture(hands)
            /\ IF found = {}
                 THEN /\ gesture_detected = None
                      /\ Len(labels) = Len(hands)
                 ELSE LET k == CHOOSE i \in found : \A j \in found : i <= j
                      IN  /\ gesture_detected = classify_gesture(hands[k])
                          /\ Len(labels) = k

C17_Witness ==
    /\ pc = "decide"
    /\ hands = <<(<<0, 1, 1, 0, 0>>), (<<1, 1, 0, 0, 0>>)>>
    /\ labels = <<"Testing / V-Sign">>
    /\ gesture_detected = "Testing / V-Sign"

(* The orders in which the five rules can be evaluated *)
RuleOrders == {p \in [1..5 -> 1..5] : \A a, b \in 1..5 : p[a] = p[b] => a = b}

RECURSIVE FirstMatch(_, _, _)
FirstMatch(p, f, i) ==
    IF i > 5 THEN None
    ELSE IF RuleCond(p[i], f) THEN RuleGesture(p[i])
    ELSE FirstMatch(p, f, i + 1)

(* C18: no finger state satisfies the conditions of two rules, so the first
   match in any order of the rules is what classify_gesture returns. *)
C18_RulesMutuallyExclusive ==
    \A i \in 1..Len(hands) :
        /\ Cardinality({r \in 1..5 : RuleCond(r, hands[i])}) <= 1
        /\ \A p \in RuleOrders : FirstMatch(p, hands[i], 1) = classify_gesture(hands[i])

C18_Witness ==
    /\ hands = <<(<<1, 1, 1, 0, 0>>)>>
    /\ labels = <<"Testing / V-Sign">>
    /\ {r \in 1..5 : RuleCond(r, hands[1])} = {4}

(* C19, as claimed: with cooldown 0 every frame whose gesture is not None
   and differs from active_gesture fires, whatever its timestamp. *)
C19_NoRateLimitAtZero ==
    [][(/\ FrameStep
        /\ SMS_COOLDOWN = 0
        /\ gesture_detected' # None
        /\ gesture_detected' # active_gesture) => Fired]_vars

(* C19, amended: with cooldown 0 a frame whose gesture is not None and
   differs from active_gesture fires exactly if its timestamp is later than
   last_sms_time; a frame with the timestamp of the previous fire does not. *)
C19_ZeroCooldownFiresWhenLater ==
    [][(/\ FrameStep
        /\ SMS_COOLDOWN = 0
        /\ gesture_detected' # None
        /\ gesture_detected' # active_gesture) =>
          (Fired <=> now' > last_sms_time)]_vars

C19_Witness ==
    /\ pc = "tail"
    /\ SMS_COOLDOWN = 0
    /\ fire_log # <<>>
    /\ ~frame_fired
    /\ gesture_detected \notin {None, active_gesture}
    /\ now = LastFireTime

(* C20: total_alerts counts the Fire decisions and the send_alert calls
   started (the call of a Fire starts after its state update and snapshot);
   a step of an iteration that takes no Fire decision leaves last_sms_time and
   total_alerts alone and changes active_gesture, if at all, to None. *)
C20_CounterAndOrder ==
    /\ [](/\ total_alerts = Len(fire_log)
          /\ dispatch_calls = IF pc = "send_alert" THEN total_alerts - 1
                                                   ELSE total_alerts
          /\ pc = "send_alert" =>
               /\ active_gesture = LastFired
               /\ last_sms_time = LastFireTime
               /\ screenshots = total_alerts)
    /\ [][(pc \in {"loop", "tail"} /\ ~Fired) =>
             /\ last_sms_time' = last_sms_time
             /\ total_alerts' = total_alerts
             /\ active_gesture' \in {active_gesture, None}]_vars

C20_Witness ==
    /\ pc = "send_alert"
    /\ total_alerts = 2
    /\ dispatch_calls = 1
    /\ screenshots = 2
    /\ active_gesture = fire_log[2].gesture

====
